---- MODULE Spec2Model ----
(***************************************************************************)
(* State-machine model of the caching and regeneration orchestration of    *)
(* canifuckingdownwindtoday: CacheManager (app/cache/manager.py) and       *)
(* AppOrchestrator (app/orchestrator.py), with the sensor feed and the     *)
(* text generator as nondeterministic collaborators.                       *)
(*                                                                         *)
(* Time is in seconds.  A Python dict is a TLA+ function whose DOMAIN is   *)
(* the set of keys; a list is a sequence; None is the record None.         *)
(***************************************************************************)
EXTENDS Integers, Sequences, FiniteSets, TLC

VARIABLES
    now,     \* datetime.now(timezone.utc), seconds
    ticks,   \* number of clock advances so far (bounds the exploration)
    cache,   \* the CacheManager object: its five attributes
    last,    \* the latest invocation: the operation, the external calls it made,
             \* what it returned (or raised), and the offline flag when it began
    offline_replies,
             \* the text service: the replies it may give to the offline prompt
    warmup_replies,
             \* and the replies it may give to the calls of one warmup_cache
    slow_calls_left,
             \* how many more invocations may wait for the text service
    source,  \* the wind station: "any" while a fetch may fail or return an old
             \* reading, "fresh" once every fetch returns a fresh reading
    page,    \* a page load (index() of main.py): where it is, and its closure
             \* variables current_persona_id and cached_data
    threads  \* threads inside CacheManager methods: the stores a writer
             \* has still to make, and where a reader is and what it loaded

\* what the text service may reply
replies == <<offline_replies, warmup_replies>>

vars ==
    <<now, ticks, cache, last, offline_replies, warmup_replies, slow_calls_left, source,
      source, page, threads>>

\* ------------------------------------------------------------------------
\* Bounds of the exploration and configuration of the program
\* ------------------------------------------------------------------------

MaxTicks == 1

\* how many invocations may find the text service slow
MaxSlowCalls == 1

\* the seconds the generator calls of one invocation may take together
CallSeconds == {0, 1}

SENSOR_CACHE_TTL_SECONDS == 120

VARIATIONS_CACHE_TTL_MINUTES == 15

SENSOR_STALE_THRESHOLD_SECONDS == 300

\* how far the clock may jump: to either side of the snapshot TTL and of
\* the variation TTL
TickSteps ==
    {SENSOR_CACHE_TTL_SECONDS, SENSOR_CACHE_TTL_SECONDS + 1,
     VARIATIONS_CACHE_TTL_MINUTES * 60, VARIATIONS_CACHE_TTL_MINUTES * 60 + 1}

OPTIMAL_WIND_MAX == 30

None == [tag |-> "None"]

Modes == {"sup", "parawing"}

Personas == {"drill_sergeant", "disappointed_dad"}

\* wind speeds (knots) the sensor may report; all with direction "N"
Winds == {8, 13, 16}

\* wind speeds of the readings the sensor may return when its data is old
StaleWinds == {13}

OPTIMAL_WIND_DIRECTIONS == {"NNW", "SSE"}

GOOD_WIND_DIRECTIONS == {"N", "S", "NE", "NNE", "SE"}

OK_WIND_DIRECTIONS == {"NW", "SW", "SSW"}

BAD_WIND_DIRECTIONS == {"E", "W", "ENE", "ESE", "WNW", "WSW"}

\* ------------------------------------------------------------------------
\* SensorReading and the Measurement Source
\* ------------------------------------------------------------------------

SensorReading(wind, dir, ts) ==
    [wind_speed_kts |-> wind, wind_direction |-> dir, timestamp_utc |-> ts]

\* is_stale with the threshold read as minutes
is_stale_Minutes(reading, t, threshold_seconds) ==
    (t - reading.timestamp_utc) > threshold_seconds * 60

\* SensorReading.is_stale
is_stale(reading, t, threshold_seconds) ==
    (t - reading.timestamp_utc) > threshold_seconds

\* SensorClient.fetch: None on any error, or a reading whose age is on either
\* side of the source-staleness threshold
FetchOutcomes(t) ==
    {None}
    \cup {SensorReading(w, "N", t - SENSOR_STALE_THRESHOLD_SECONDS) : w \in Winds}
    \cup {SensorReading(w, "N", t - SENSOR_STALE_THRESHOLD_SECONDS - 1)
          : w \in StaleWinds}

\* SensorClient.fetch while the station reports: a reading, and not an old one
FreshOutcomes(t) ==
    {reading \in FetchOutcomes(t) \ {None}
        : ~is_stale(reading, t, SENSOR_STALE_THRESHOLD_SECONDS)}

\* what sensor_client.fetch() may return at time t
Fetched(t) == IF source = "fresh" THEN FreshOutcomes(t) ELSE FetchOutcomes(t)

\* ------------------------------------------------------------------------
\* Score Function
\* ------------------------------------------------------------------------

Min(a, b) == IF a < b THEN a ELSE b

Max(a, b) == IF a > b THEN a ELSE b

\* Python's int(round(x)) for x = twice / 2: halves round to the even integer
RoundHalf(twice) ==
    LET f == twice \div 2
    IN  IF twice % 2 = 0 THEN f ELSE IF f % 2 = 0 THEN f ELSE f + 1

calculate_sup_score_from_sensor(reading) ==
    LET wind == reading.wind_speed_kts
        speed == IF wind < 10 THEN 1
                 ELSE IF wind < 12 THEN 2
                 ELSE IF wind < 15 THEN 3
                 ELSE IF wind < 17 THEN 5
                 ELSE IF wind <= OPTIMAL_WIND_MAX THEN 7
                 ELSE 5
        direction ==
            IF wind >= 15
            THEN IF reading.wind_direction \in OPTIMAL_WIND_DIRECTIONS THEN 2
                 ELSE IF reading.wind_direction \in GOOD_WIND_DIRECTIONS THEN 1
                 ELSE IF reading.wind_direction \in OK_WIND_DIRECTIONS THEN 0
                 ELSE IF reading.wind_direction \in BAD_WIND_DIRECTIONS THEN -2
                 ELSE -1
            ELSE 0
    IN  Max(1, Min(10, 1 + speed + direction))

calculate_parawing_score_from_sensor(reading) ==
    LET wind == reading.wind_speed_kts
        sup == calculate_sup_score_from_sensor(reading)
        twice == IF wind < 15 THEN 2 * Min(sup, 4) - (15 - wind)
                 ELSE IF wind >= 18 THEN 2 * sup + 2
                 ELSE 2 * sup
    IN  Max(1, Min(10, RoundHalf(twice)))

\* ------------------------------------------------------------------------
\* Text Generator (LLMClient): the text is opaque; what matters is which
\* call produced it.  `returned` is the set of persona keys of the reply
\* (empty: the call failed and the client returned {}).
\* ------------------------------------------------------------------------

LiveText(mode, persona, rating) ==
    [kind |-> "live", mode |-> mode, persona |-> persona, rating |-> rating]

OfflineText(persona) == [kind |-> "offline", persona |-> persona]

generate_all_variations(rating, mode, returned) ==
    [p \in returned |-> <<LiveText(mode, p, rating)>>]

generate_single_persona_variations(rating, mode, persona_id, ok) ==
    IF ok /\ persona_id \in Personas
    THEN <<LiveText(mode, persona_id, rating)>>
    ELSE <<>>

generate_offline_variations(returned) ==
    [p \in returned |-> <<OfflineText(p)>>]

\* the replies considered: every persona, or none (the call failed); the
\* generator is up, or down, for all the calls of one invocation
LLMReplies == {Personas, {}}

\* the replies of generate_offline_variations when the service need not
\* follow the prompt: the reply is any JSON object the service sends, so
\* besides "every persona" and "none" (the call failed) there is the reply
\* that leaves personas out, here the first
OfflineReplies == {Personas, Personas \ {"drill_sergeant"}, {}}

\* dict.get(key, default)
Get(dict, key, default) == IF key \in DOMAIN dict THEN dict[key] ELSE default

\* ------------------------------------------------------------------------
\* CacheManager
\* ------------------------------------------------------------------------

\* CacheManager.__init__ (the offline pool attribute is created on first set)
CacheManagerInit ==
    [_sensor_cache |-> None,
     _variations_cache |-> None,
     _is_offline |-> FALSE,
     _last_known_reading |-> None,
     _offline_variations |-> None]

\* set_sensor that leaves the last-known reading as it was
set_sensor_KeepsLastKnown(c, t, reading, ratings) ==
    [c EXCEPT !._sensor_cache =
                  [reading |-> reading, ratings |-> ratings, fetched_at |-> t],
              !._is_offline = FALSE]

\* set_sensor that also discards the variation entry
set_sensor_DropsVariations(c, t, reading, ratings) ==
    [c EXCEPT !._sensor_cache =
                  [reading |-> reading, ratings |-> ratings, fetched_at |-> t],
              !._variations_cache = None,
              !._is_offline = FALSE,
              !._last_known_reading = reading]

\* set_sensor that stores the entry but leaves the offline flag as it was
set_sensor_KeepsOffline(c, t, reading, ratings) ==
    [c EXCEPT !._sensor_cache =
                  [reading |-> reading, ratings |-> ratings, fetched_at |-> t],
              !._last_known_reading = reading]

set_sensor(c, t, reading, ratings) ==
    [c EXCEPT !._sensor_cache =
                  [reading |-> reading, ratings |-> ratings, fetched_at |-> t],
              !._is_offline = FALSE,
              !._last_known_reading = reading]

\* is_sensor_stale that trusts whatever snapshot there is while offline
is_sensor_stale_NotWhileOffline(c, t) ==
    /\ ~c._is_offline
    /\ IF c._sensor_cache = None THEN TRUE
       ELSE (t - c._sensor_cache.fetched_at) > SENSOR_CACHE_TTL_SECONDS

\* is_sensor_stale with >= in place of >
is_sensor_stale_AtTTL(c, t) ==
    IF c._sensor_cache = None THEN TRUE
    ELSE (t - c._sensor_cache.fetched_at) >= SENSOR_CACHE_TTL_SECONDS

is_sensor_stale(c, t) ==
    IF c._sensor_cache = None THEN TRUE
    ELSE (t - c._sensor_cache.fetched_at) > SENSOR_CACHE_TTL_SECONDS

get_sensor(c, t) ==
    IF is_sensor_stale(c, t) THEN None ELSE c._sensor_cache

get_ratings(c) ==
    IF c._sensor_cache # None THEN c._sensor_cache.ratings ELSE None

\* set_variations that, given no texts for a mode, keeps the texts the old
\* entry holds for it
set_variations_KeepsOldTexts(c, t, rating_snapshot, variations) ==
    [c EXCEPT !._variations_cache =
                  [rating_snapshot |-> rating_snapshot,
                   variations |->
                       IF @ = None THEN variations
                       ELSE [mode \in DOMAIN variations
                               |-> IF DOMAIN variations[mode] = {}
                                   THEN Get(@.variations, mode, variations[mode])
                                   ELSE variations[mode]],
                   generated_at |-> t]]

set_variations(c, t, rating_snapshot, variations) ==
    [c EXCEPT !._variations_cache =
                  [rating_snapshot |-> rating_snapshot,
                   variations |-> variations,
                   generated_at |-> t]]

get_variations(c, mode, persona_id) ==
    IF c._variations_cache = None THEN <<>>
    ELSE Get(Get(c._variations_cache.variations, mode, <<>>), persona_id, <<>>)

get_all_variations(c) == c._variations_cache

\* is_variations_stale with >= in place of >
is_variations_stale_AtTTL(c, t) ==
    IF c._variations_cache = None THEN TRUE
    ELSE (t - c._variations_cache.generated_at) >= VARIATIONS_CACHE_TTL_MINUTES * 60

is_variations_stale(c, t) ==
    IF c._variations_cache = None THEN TRUE
    ELSE (t - c._variations_cache.generated_at) > VARIATIONS_CACHE_TTL_MINUTES * 60

\* should_regenerate_variations that compares the "sup" rating only
should_regenerate_variations_SupOnly(c, t, current_ratings) ==
    IF c._variations_cache = None THEN TRUE
    ELSE IF is_variations_stale(c, t) THEN TRUE
    ELSE c._variations_cache.rating_snapshot.sup # current_ratings.sup

should_regenerate_variations(c, t, current_ratings) ==
    IF c._variations_cache = None THEN TRUE
    ELSE IF is_variations_stale(c, t) THEN TRUE
    ELSE c._variations_cache.rating_snapshot # current_ratings

\* set_offline that also drops the snapshot entry
set_offline_DropsSnapshot(c, last_known_reading) ==
    [c EXCEPT !._is_offline = TRUE,
              !._sensor_cache = None,
              !._last_known_reading =
                  IF last_known_reading # None THEN last_known_reading ELSE @]

\* set_offline that keeps an existing last-known reading whatever is supplied
set_offline_KeepsOld(c, last_known_reading) ==
    [c EXCEPT !._is_offline = TRUE,
              !._last_known_reading =
                  IF @ # None THEN @ ELSE last_known_reading]

set_offline(c, last_known_reading) ==
    [c EXCEPT !._is_offline = TRUE,
              !._last_known_reading =
                  IF last_known_reading # None THEN last_known_reading ELSE @]

is_offline(c) == c._is_offline

get_last_known_reading(c) == c._last_known_reading

set_offline_variations(c, variations) ==
    [c EXCEPT !._offline_variations = variations]

get_offline_variations(c, mode, persona_id) ==
    IF c._offline_variations = None THEN <<>>
    ELSE Get(Get(c._offline_variations, mode, <<>>), persona_id, <<>>)

\* clear that forgets the last-known reading too
clear_ForgetsLastKnown(c) ==
    [c EXCEPT !._sensor_cache = None,
              !._variations_cache = None,
              !._is_offline = FALSE,
              !._last_known_reading = None]

clear(c) ==
    [c EXCEPT !._sensor_cache = None,
              !._variations_cache = None,
              !._is_offline = FALSE]

\* ------------------------------------------------------------------------
\* AppOrchestrator.  An invocation works on st = [cache, calls]: the cache
\* object and the log of the external calls made so far in this invocation.
\* The replies of the sensor and of the text generator are not determined
\* by the program, so each operation yields the SET of its possible outcomes.
\* ------------------------------------------------------------------------

NoCalls == [fetch |-> <<>>, llm |-> <<>>]

\* `elapsed` is the time the invocation has spent waiting so far
Begin(c) == [cache |-> c, calls |-> NoCalls, elapsed |-> 0]

\* datetime.now(timezone.utc) inside an invocation that began at time t
Clock(st, t) == t + st.elapsed

\* the invocation waited d seconds for a reply
Took(st, d) == [st EXCEPT !.elapsed = @ + d]

\* how long the generator calls of the current invocation may take
Durations == IF slow_calls_left > 0 THEN CallSeconds ELSE {0}

WithCache(st, c) == [st EXCEPT !.cache = c]

\* self.sensor_client.fetch() was called and returned `reading`
LogFetch(st, reading) ==
    [st EXCEPT !.calls.fetch = Append(@, reading)]

\* self.llm_client.<fn>(...) was called and its reply held the persona keys
\* `returned`; the offline flag at that moment is noted
LogLLM(st, fn, mode, persona_id, rating, returned) ==
    [st EXCEPT !.calls.llm = Append(@,
        [fn |-> fn, mode |-> mode, persona |-> persona_id, rating |-> rating,
         returned |-> returned, offline |-> is_offline(st.cache)])]

_ensure_offline_variations(st) ==
    IF get_offline_variations(st.cache, "sup", "drill_sergeant") # <<>>
    THEN {st}
    ELSE { LET st1 == LogLLM(st, "generate_offline_variations", "-", "-", 0,
                             returned)
                   offline_variations == generate_offline_variations(returned)
               IN  IF DOMAIN offline_variations # {}
                   THEN WithCache(st1, set_offline_variations(st1.cache,
                            [sup |-> offline_variations,
                             parawing |-> offline_variations]))
                   ELSE st1
               : returned \in offline_replies }

\* _refresh_sensor without the check of the reading's own age
AfterFetch_NoStaleCheck(st, t, reading) ==
    IF reading = None
    THEN _ensure_offline_variations(
             WithCache(st, set_offline(st.cache, get_last_known_reading(st.cache))))
    ELSE { WithCache(st, set_sensor(st.cache, t, reading,
               [sup |-> calculate_sup_score_from_sensor(reading),
                parawing |-> calculate_parawing_score_from_sensor(reading)])) }

\* what _refresh_sensor does once fetch() has returned `reading`
AfterFetch(st, t, reading) ==
    IF reading = None
    THEN _ensure_offline_variations(
             WithCache(st, set_offline(st.cache, get_last_known_reading(st.cache))))
    ELSE IF is_stale(reading, t, SENSOR_STALE_THRESHOLD_SECONDS)
    THEN _ensure_offline_variations(WithCache(st, set_offline(st.cache, reading)))
    ELSE { WithCache(st, set_sensor(st.cache, t, reading,
               [sup |-> calculate_sup_score_from_sensor(reading),
                parawing |-> calculate_parawing_score_from_sensor(reading)])) }

_refresh_sensor(st, t) ==
    UNION { AfterFetch(LogFetch(st, reading), t, reading)
            : reading \in Fetched(t) }

\* _refresh_variations that generates the texts and never stores them
_refresh_variations_NoStore(st, t, ratings) ==
    LET sensor_data == get_sensor(st.cache, Clock(st, t))
    IN  IF sensor_data = None \/ sensor_data.reading = None
        THEN {st}
        ELSE { Took(LogLLM(LogLLM(st, "generate_all_variations", "sup", "*",
                                  ratings.sup, returned),
                           "generate_all_variations", "parawing", "*",
                           ratings.parawing, returned), d)
               : returned \in LLMReplies, d \in Durations }

_refresh_variations(st, t, ratings) ==
    LET sensor_data == get_sensor(st.cache, Clock(st, t))
    IN  IF sensor_data = None \/ sensor_data.reading = None
        THEN {st}
        ELSE { LET st1 == LogLLM(st, "generate_all_variations", "sup", "*",
                                 ratings.sup, returned)
                   st2 == Took(LogLLM(st1, "generate_all_variations", "parawing",
                                      "*", ratings.parawing, returned), d)
               IN  WithCache(st2, set_variations(st2.cache, Clock(st2, t), ratings,
                       [sup |-> generate_all_variations(ratings.sup, "sup", returned),
                        parawing |-> generate_all_variations(ratings.parawing,
                                                             "parawing", returned)]))
               : returned \in LLMReplies, d \in Durations }

EmptyVariations == [sup |-> <<>>, parawing |-> <<>>]

\* an exception left the operation
Raised(error) == [kind |-> "raised", error |-> error]

\* _build_offline_response that puts the offline pool into the response
_build_offline_response_WithPool(c) ==
    LET last_known == get_last_known_reading(c)
    IN  [kind |-> "response",
         is_offline |-> TRUE,
         timestamp |-> IF last_known # None THEN last_known.timestamp_utc ELSE None,
         last_known_reading |-> last_known,
         ratings |-> None,
         variations |-> IF c._offline_variations # None THEN c._offline_variations
                        ELSE EmptyVariations]

\* _build_offline_response that reads last_known.timestamp_utc unguarded
_build_offline_response_NoNoneCheck(c) ==
    LET last_known == get_last_known_reading(c)
    IN  IF last_known = None THEN Raised("AttributeError")
        ELSE [kind |-> "response",
              is_offline |-> TRUE,
              timestamp |-> last_known.timestamp_utc,
              last_known_reading |-> last_known,
              ratings |-> None,
              variations |-> EmptyVariations]

_build_offline_response(c) ==
    LET last_known == get_last_known_reading(c)
    IN  [kind |-> "response",
         is_offline |-> TRUE,
         timestamp |-> IF last_known # None THEN last_known.timestamp_utc ELSE None,
         last_known_reading |-> last_known,
         ratings |-> None,
         variations |-> EmptyVariations]

_build_online_response(c, t) ==
    LET sensor_data == get_sensor(c, t)
        variations_cache == get_all_variations(c)
    IN  [kind |-> "response",
         is_offline |-> FALSE,
         timestamp |-> IF sensor_data # None THEN sensor_data.fetched_at ELSE None,
         last_known_reading |-> IF sensor_data # None THEN sensor_data.reading ELSE None,
         ratings |-> IF sensor_data # None THEN sensor_data.ratings ELSE <<>>,
         variations |-> IF variations_cache # None THEN variations_cache.variations
                        ELSE <<>>]

Return(st, response) == [st |-> st, resp |-> response]

\* get_cached_data without the offline check
CachedDataAfterSensor_NoOfflineCheck(st, t) ==
    LET current_ratings == get_ratings(st.cache)
    IN  IF current_ratings # None
           /\ should_regenerate_variations(st.cache, Clock(st, t), current_ratings)
        THEN { Return(st2, _build_online_response(st2.cache, Clock(st2, t)))
               : st2 \in _refresh_variations(st, t, current_ratings) }
        ELSE { Return(st, _build_online_response(st.cache, Clock(st, t))) }

\* get_cached_data from the offline check on
CachedDataAfterSensor(st, t) ==
    IF is_offline(st.cache)
    THEN { Return(st, _build_offline_response(st.cache)) }
    ELSE LET current_ratings == get_ratings(st.cache)
         IN  IF current_ratings # None
                /\ should_regenerate_variations(st.cache, Clock(st, t),
                                                current_ratings)
             THEN { Return(st2, _build_online_response(st2.cache, Clock(st2, t)))
                    : st2 \in _refresh_variations(st, t, current_ratings) }
             ELSE { Return(st, _build_online_response(st.cache, Clock(st, t))) }

\* get_cached_data that refreshes the sensor on every request
get_cached_data_AlwaysFetches(st, t) ==
    UNION { CachedDataAfterSensor(st1, t) : st1 \in _refresh_sensor(st, t) }

get_cached_data(st, t) ==
    UNION { CachedDataAfterSensor(st1, t)
            : st1 \in IF is_sensor_stale(st.cache, t)
                      THEN _refresh_sensor(st, t) ELSE {st} }

\* a call that returns None
Returned == [kind |-> "returned"]

\* get_initial_data from the offline check on.  The fast path asks the cache
\* for has_fresh_variations, which CacheManager does not define: the attribute
\* lookup raises AttributeError and the rest of the method is never reached.
InitialDataAfterSensor(st, t, persona_id) ==
    IF is_offline(st.cache)
    THEN Return(st, _build_offline_response(st.cache))
    ELSE LET sensor_data == get_sensor(st.cache, t)
         IN  IF sensor_data = None \/ sensor_data.reading = None
             THEN Return(st, _build_offline_response(st.cache))
             ELSE Return(st, Raised("AttributeError"))

get_initial_data(st, t, persona_id) ==
    { InitialDataAfterSensor(st1, t, persona_id)
      : st1 \in IF is_sensor_stale(st.cache, t)
                THEN _refresh_sensor(st, t) ELSE {st} }

\* refresh_remaining_variations: after the offline check it asks the cache for
\* has_complete_variations, which CacheManager does not define either.
refresh_remaining_variations(st, t) ==
    IF is_offline(st.cache)
    THEN { Return(st, Returned) }
    ELSE { Return(st, Raised("AttributeError")) }

\* PERSONAS, in list order
PersonaList == <<"drill_sergeant", "disappointed_dad">>

\* the single-persona calls of one mode, in list order; `ok` holds the
\* personas whose call returns texts
RECURSIVE LogSingles(_, _, _, _, _)
LogSingles(st, mode, rating, ok, i) ==
    IF i > Len(PersonaList) THEN st
    ELSE LogSingles(LogLLM(st, "generate_single_persona_variations", mode,
                           PersonaList[i], rating,
                           IF PersonaList[i] \in ok THEN {PersonaList[i]} ELSE {}),
                    mode, rating, ok, i + 1)

\* how the generator answers one mode of warmup_cache: whether the batch call
\* returns the texts and, when it does not, which single-persona calls do
BatchReply == [batch |-> TRUE, singles |-> {}]

SinglesReply(ok) == [batch |-> FALSE, singles |-> ok]

\* the generator is up, or its batch call alone is down, or it is down, for
\* both modes of one warmup_cache
WarmupReplies ==
    { [mode \in Modes |-> h]
      : h \in {BatchReply, SinglesReply(Personas), SinglesReply({})} }

\* every reply is decided on its own: per mode the batch call, per persona the
\* single call
MixedWarmupReplies ==
    [Modes -> {BatchReply} \cup {SinglesReply(ok) : ok \in SUBSET Personas}]

\* WarmupMode that keeps the empty results of the single-persona calls too
WarmupMode_KeepsEmpty(st, ratings, mode, how) ==
    LET st1 == LogLLM(st, "generate_all_variations", mode, "*", ratings[mode],
                      IF how.batch THEN Personas ELSE {})
    IN  IF how.batch
        THEN [st |-> st1,
              variations |-> generate_all_variations(ratings[mode], mode, Personas)]
        ELSE [st |-> LogSingles(st1, mode, ratings[mode], how.singles, 1),
              variations |->
                  [p \in Personas
                     |-> generate_single_persona_variations(
                             ratings[mode], mode, p, p \in how.singles)]]

\* one round of warmup_cache's loop over the modes: the batch call and, when it
\* returned nothing, one single-persona call per persona, keeping the non-empty
WarmupMode(st, ratings, mode, how) ==
    LET st1 == LogLLM(st, "generate_all_variations", mode, "*", ratings[mode],
                      IF how.batch THEN Personas ELSE {})
    IN  IF how.batch
        THEN [st |-> st1,
              variations |-> generate_all_variations(ratings[mode], mode, Personas)]
        ELSE [st |-> LogSingles(st1, mode, ratings[mode], how.singles, 1),
              variations |->
                  [p \in how.singles
                     |-> generate_single_persona_variations(
                             ratings[mode], mode, p, TRUE)]]

\* warmup_cache after its _refresh_sensor call
WarmupAfterSensor(st, t) ==
    IF is_offline(st.cache)
    THEN _ensure_offline_variations(st)
    ELSE LET sensor_data == get_sensor(st.cache, Clock(st, t))
         IN  IF sensor_data = None \/ sensor_data.reading = None
             THEN {st}
             ELSE LET ratings == sensor_data.ratings
                  IN  { LET s == WarmupMode(st, ratings, "sup", how.sup)
                            p == WarmupMode(s.st, ratings, "parawing",
                                            how.parawing)
                            end == Took(p.st, d)
                        IN  WithCache(end, set_variations(end.cache, Clock(end, t),
                                ratings,
                                [sup |-> s.variations,
                                 parawing |-> p.variations]))
                        : how \in warmup_replies, d \in Durations }

warmup_cache(st, t) ==
    UNION { WarmupAfterSensor(st1, t) : st1 \in _refresh_sensor(st, t) }

Abs(x) == IF x < 0 THEN -x ELSE x

\* _ratings_changed_significantly with a threshold of 5 in place of 2
_ratings_changed_significantly_MoreThan5(new_ratings, old_ratings) ==
    LET sup_delta == Abs(Get(new_ratings, "sup", 0) - Get(old_ratings, "sup", 0))
        parawing_delta ==
            Abs(Get(new_ratings, "parawing", 0) - Get(old_ratings, "parawing", 0))
    IN  sup_delta > 5 \/ parawing_delta > 5

\* _ratings_changed_significantly with >= in place of >
_ratings_changed_significantly_AtLeast2(new_ratings, old_ratings) ==
    LET sup_delta == Abs(Get(new_ratings, "sup", 0) - Get(old_ratings, "sup", 0))
        parawing_delta ==
            Abs(Get(new_ratings, "parawing", 0) - Get(old_ratings, "parawing", 0))
    IN  sup_delta >= 2 \/ parawing_delta >= 2

_ratings_changed_significantly(new_ratings, old_ratings) ==
    LET sup_delta == Abs(Get(new_ratings, "sup", 0) - Get(old_ratings, "sup", 0))
        parawing_delta ==
            Abs(Get(new_ratings, "parawing", 0) - Get(old_ratings, "parawing", 0))
    IN  sup_delta > 2 \/ parawing_delta > 2

\* check_and_refresh_if_needed after its _refresh_sensor call
CheckAfterSensor(st, t) ==
    IF is_offline(st.cache)
    THEN _ensure_offline_variations(st)
    ELSE LET new_ratings == get_ratings(st.cache)
             variations_cache == get_all_variations(st.cache)
         IN  IF new_ratings = None THEN {st}
             ELSE IF variations_cache = None THEN warmup_cache(st, t)
             ELSE IF _ratings_changed_significantly(new_ratings,
                                                    variations_cache.rating_snapshot)
             THEN _refresh_variations(st, t, new_ratings)
             ELSE {st}

check_and_refresh_if_needed(st, t) ==
    UNION { CheckAfterSensor(st1, t) : st1 \in _refresh_sensor(st, t) }

Range(list) == { list[i] : i \in DOMAIN list }

OfflineFallback == [kind |-> "offline_fallback"]

NoDataFallback == [kind |-> "no_data"]

ConditionsFallback(reading, rating) ==
    [kind |-> "conditions", wind_speed_kts |-> reading.wind_speed_kts,
     wind_direction |-> reading.wind_direction, rating |-> rating]

\* get_random_variation without the offline branch
get_random_variation_IgnoresOffline(c, t, mode, persona_id) ==
    LET variations == get_variations(c, mode, persona_id)
    IN  IF variations # <<>> THEN Range(variations)
        ELSE LET ratings == get_ratings(c)
                 rating == IF ratings = None THEN 0 ELSE Get(ratings, mode, 0)
                 sensor_data == get_sensor(c, t)
                 reading == IF sensor_data # None THEN sensor_data.reading
                            ELSE None
             IN  IF reading # None THEN {ConditionsFallback(reading, rating)}
                 ELSE {NoDataFallback}

\* the strings get_random_variation may return (random.choice picks any)
get_random_variation(c, t, mode, persona_id) ==
    IF is_offline(c)
    THEN LET variations == get_offline_variations(c, mode, persona_id)
         IN  IF variations # <<>> THEN Range(variations) ELSE {OfflineFallback}
    ELSE LET variations == get_variations(c, mode, persona_id)
         IN  IF variations # <<>> THEN Range(variations)
             ELSE LET ratings == get_ratings(c)
                      rating == IF ratings = None THEN 0 ELSE Get(ratings, mode, 0)
                      sensor_data == get_sensor(c, t)
                      reading == IF sensor_data # None THEN sensor_data.reading
                                 ELSE None
                  IN  IF reading # None THEN {ConditionsFallback(reading, rating)}
                      ELSE {NoDataFallback}

\* ------------------------------------------------------------------------
\* The state machine
\* ------------------------------------------------------------------------

\* current_persona_id = None (a persona id is a string)
NoPersona == "None"

\* index() before its timer fires initial_load: cached_data = None,
\* current_persona_id = None.  `initial` is how the get_initial_data call of
\* this load ended, `displayed` what update_display has shown, `fill` whether
\* background_refresh has handed refresh_remaining_variations to the executor
NoPage ==
    [pc |-> "start", current_persona_id |-> NoPersona, cached_data |-> None,
     initial |-> "not_called", displayed |-> None, visible |-> FALSE,
     fill |-> "not_started"]

\* no thread is inside a CacheManager method
NoThreads ==
    [w |-> <<>>,
     r |-> [pc |-> "idle", method |-> "-", first |-> None, result |-> None],
     fill |-> [pc |-> "idle", result |-> None]]

\* no invocation has returned since the clock last moved
NoInvocation ==
    [op |-> "none", calls |-> NoCalls, result |-> None, offline_before |-> FALSE]

Init ==
    /\ now = 0
    /\ ticks = 0
    /\ cache = CacheManagerInit
    /\ last = NoInvocation
    /\ offline_replies = LLMReplies
    /\ warmup_replies = WarmupReplies
    /\ slow_calls_left = 0
    /\ source = "any"
    /\ page = NoPage
    /\ threads = NoThreads

\* the same, with a text service that may leave personas out of its reply
InitPartialReplies ==
    /\ now = 0
    /\ ticks = 0
    /\ cache = CacheManagerInit
    /\ last = NoInvocation
    /\ offline_replies = OfflineReplies
    /\ warmup_replies = WarmupReplies
    /\ slow_calls_left = 0
    /\ source = "any"
    /\ page = NoPage
    /\ threads = NoThreads

\* time passes
Tick ==
    \E d \in TickSteps :
        /\ ticks < MaxTicks
        /\ now' = now + d
        /\ ticks' = ticks + 1
        /\ last' = NoInvocation
        /\ UNCHANGED <<cache, replies, slow_calls_left, source, page, threads>>

Invoke(op, outcomes) ==
    \E r \in outcomes :
        /\ cache' = r.st.cache
        /\ last' = [op |-> op, calls |-> r.st.calls, result |-> r.resp,
                    offline_before |-> is_offline(cache)]
        /\ now' = now + r.st.elapsed
        /\ slow_calls_left' = IF r.st.elapsed > 0 THEN slow_calls_left - 1
                              ELSE slow_calls_left
        /\ UNCHANGED <<ticks, replies, source, page, threads>>

GetCachedData == Invoke("get_cached_data", get_cached_data(Begin(cache), now))

GetInitialData ==
    \E persona_id \in Personas :
        Invoke("get_initial_data", get_initial_data(Begin(cache), now, persona_id))

RefreshRemainingVariations ==
    Invoke("refresh_remaining_variations",
           refresh_remaining_variations(Begin(cache), now))

WarmupCache ==
    Invoke("warmup_cache",
           { Return(st, Returned) : st \in warmup_cache(Begin(cache), now) })

CheckAndRefreshIfNeeded ==
    Invoke("check_and_refresh_if_needed",
           { Return(st, Returned)
             : st \in check_and_refresh_if_needed(Begin(cache), now) })

GetRandomVariation ==
    \E mode \in Modes, persona_id \in Personas :
        Invoke("get_random_variation",
               { Return(Begin(cache),
                        [kind |-> "text", text |-> text, mode |-> mode,
                         persona_id |-> persona_id])
                 : text \in get_random_variation(cache, now, mode, persona_id) })

\* cache.set_variations(rating_snapshot, variations, merge=...): the keyword
\* `merge` is not a parameter of CacheManager.set_variations, so a call that
\* passes it raises TypeError before the method body runs; `merge` is
\* "True", "False", or "omitted" for a call without the keyword
SetVariationsCall(st, t, rating_snapshot, variations, merge) ==
    IF merge # "omitted"
    THEN Return(st, Raised("TypeError"))
    ELSE Return(WithCache(st, set_variations(st.cache, t, rating_snapshot,
                                             variations)),
                Returned)

\* the call get_initial_data and refresh_remaining_variations make to store
\* their texts: one persona's lists for both modes, merge=True
SetVariationsMerge ==
    \E persona_id \in Personas :
        /\ get_ratings(cache) # None
        /\ Invoke("set_variations",
               { SetVariationsCall(Begin(cache), now, get_ratings(cache),
                     [mode \in Modes |->
                         [p \in {persona_id} |->
                             generate_single_persona_variations(
                                 get_ratings(cache)[mode], mode, p, TRUE)]],
                     "True") })

\* CacheManager.clear()
Clear == Invoke("clear", { Return(Begin(clear(cache)), Returned) })

Next ==
    \/ Tick
    \/ GetCachedData
    \/ GetInitialData
    \/ RefreshRemainingVariations
    \/ WarmupCache
    \/ CheckAndRefreshIfNeeded
    \/ GetRandomVariation
    \/ SetVariationsMerge
    \/ Clear

Spec == Init /\ [][Next]_vars

SpecPartialReplies == InitPartialReplies /\ [][Next]_vars

\* the same as Init, with a text service whose replies may take time
InitSlowCalls ==
    /\ now = 0
    /\ ticks = 0
    /\ cache = CacheManagerInit
    /\ last = NoInvocation
    /\ offline_replies = LLMReplies
    /\ warmup_replies = WarmupReplies
    /\ slow_calls_left = MaxSlowCalls
    /\ source = "any"
    /\ page = NoPage
    /\ threads = NoThreads

SpecSlowCalls == InitSlowCalls /\ [][Next]_vars

\* the same as Init, with a text service that answers each call of one
\* warmup_cache on its own
InitMixedWarmup ==
    /\ now = 0
    /\ ticks = 0
    /\ cache = CacheManagerInit
    /\ last = NoInvocation
    /\ offline_replies = LLMReplies
    /\ warmup_replies = MixedWarmupReplies
    /\ slow_calls_left = 0
    /\ source = "any"
    /\ page = NoPage
    /\ threads = NoThreads

\* warm-ups, at server start and again later
NextWarmup ==
    \/ Tick
    \/ WarmupCache

SpecMixedWarmup == InitMixedWarmup /\ [][NextWarmup]_vars

\* ------------------------------------------------------------------------
\* A page load (main.py, index): initial_load runs fast_initial_load,
\* update_display and show_content in turn and then sets the timer of
\* background_refresh
\* ------------------------------------------------------------------------

\* fast_initial_load.  `connected` is FALSE when client.connected() or
\* run_javascript raises (the client has gone): the except branch then runs
\* with current_persona_id still None.  Otherwise the persona is chosen and
\* stored before get_initial_data is called, and an exception of
\* get_initial_data leads to the same except branch: get_cached_data().
fast_initial_load(c, t, connected, persona_id) ==
    IF ~connected
    THEN { [cache |-> r.st.cache, current_persona_id |-> NoPersona,
            cached_data |-> r.resp, initial |-> "not_called"]
           : r \in get_cached_data(Begin(c), t) }
    ELSE UNION {
           IF i.resp.kind = "raised"
           THEN { [cache |-> r.st.cache, current_persona_id |-> persona_id,
                   cached_data |-> r.resp, initial |-> "raised"]
                  : r \in get_cached_data(Begin(i.st.cache), t) }
           ELSE { [cache |-> i.st.cache, current_persona_id |-> persona_id,
                   cached_data |-> i.resp, initial |-> "returned"] }
           : i \in get_initial_data(Begin(c), t, persona_id) }

FastInitialLoad ==
    /\ page.pc = "start"
    /\ \E connected \in BOOLEAN, persona_id \in Personas :
           \E r \in fast_initial_load(cache, now, connected, persona_id) :
               /\ cache' = r.cache
               /\ page' = [page EXCEPT !.pc = "loaded",
                                       !.current_persona_id = r.current_persona_id,
                                       !.cached_data = r.cached_data,
                                       !.initial = r.initial]
    /\ UNCHANGED <<now, ticks, last, replies, slow_calls_left, source, threads>>

\* update_display: shows cached_data
UpdateDisplay ==
    /\ page.pc = "loaded"
    /\ page' = [page EXCEPT !.pc = "displayed", !.displayed = page.cached_data]
    /\ UNCHANGED <<now, ticks, cache, last, replies, slow_calls_left, source, threads>>

\* show_content, and then ui.timer(0.5, background_refresh, once=True), which
\* raises when the client has disconnected: no timer is set then
ShowContent ==
    /\ page.pc = "displayed"
    /\ \E connected \in BOOLEAN :
           page' = [page EXCEPT !.pc = IF connected THEN "timer" ELSE "done",
                                !.visible = TRUE]
    /\ UNCHANGED <<now, ticks, cache, last, replies, slow_calls_left, source, threads>>

\* background_refresh, when its timer fires: refresh_remaining_variations is
\* run in the executor if a persona was chosen and cached_data is an online
\* response; whatever it raises is caught
background_refresh(c, t, p) ==
    IF p.current_persona_id # NoPersona /\ p.cached_data # None
       /\ ~p.cached_data.is_offline
    THEN { [cache |-> r.st.cache, fill |-> "started"]
           : r \in refresh_remaining_variations(Begin(c), t) }
    ELSE { [cache |-> c, fill |-> "not_started"] }

BackgroundRefresh ==
    /\ page.pc = "timer"
    /\ \E r \in background_refresh(cache, now, page) :
           /\ cache' = r.cache
           /\ page' = [page EXCEPT !.pc = "done", !.fill = r.fill]
    /\ UNCHANGED <<now, ticks, last, replies, slow_calls_left, source, threads>>

\* the page is requested again: index() runs anew
NewPageLoad ==
    /\ page.pc = "done"
    /\ page' = NoPage
    /\ UNCHANGED <<now, ticks, cache, last, replies, slow_calls_left, source, threads>>

NextPageLoad ==
    \/ Tick
    \/ FastInitialLoad
    \/ UpdateDisplay
    \/ ShowContent
    \/ BackgroundRefresh
    \/ NewPageLoad

SpecPageLoad == Init /\ [][NextPageLoad]_vars

\* ------------------------------------------------------------------------
\* Page loads while the wind station comes back
\* ------------------------------------------------------------------------

\* the station starts to report again: from here on every fetch returns a
\* reading that is not old
SourceRecovers ==
    /\ source = "any"
    /\ source' = "fresh"
    /\ UNCHANGED <<now, ticks, cache, last, replies, slow_calls_left, page, threads>>

\* one step of a page load; a finished page is requested again
PageStep ==
    \/ FastInitialLoad
    \/ UpdateDisplay
    \/ ShowContent
    \/ BackgroundRefresh
    \/ NewPageLoad

NextRecovery ==
    \/ Tick
    \/ SourceRecovers
    \/ FastInitialLoad
    \/ UpdateDisplay
    \/ ShowContent
    \/ BackgroundRefresh
    \/ NewPageLoad

\* page loads keep arriving and each one runs to its end
SpecRecovery == Init /\ [][NextRecovery]_vars /\ WF_vars(PageStep)

\* ------------------------------------------------------------------------
\* Two threads in CacheManager (a request writing, an executor thread
\* reading).  Each load and each store of an attribute of the cache object is
\* one step; a dict is built before the store that publishes it.
\* ------------------------------------------------------------------------

\* carry out one attribute store: of the whole attribute (field "*"), or of
\* one key of the dict the attribute holds
ApplyStore(c, store) ==
    IF store.field = "*"
    THEN [c EXCEPT ![store.attr] = store.value]
    ELSE [c EXCEPT ![store.attr][store.field] = store.value]

\* set_sensor that updates the keys of the existing dict one by one
set_sensor_stores_InPlace(c, t, reading, ratings) ==
    IF c._sensor_cache = None
    THEN << [attr |-> "_sensor_cache", field |-> "*",
             value |-> [reading |-> reading, ratings |-> ratings, fetched_at |-> t]],
            [attr |-> "_is_offline", field |-> "*", value |-> FALSE],
            [attr |-> "_last_known_reading", field |-> "*", value |-> reading] >>
    ELSE << [attr |-> "_sensor_cache", field |-> "reading", value |-> reading],
            [attr |-> "_sensor_cache", field |-> "ratings", value |-> ratings],
            [attr |-> "_sensor_cache", field |-> "fetched_at", value |-> t],
            [attr |-> "_is_offline", field |-> "*", value |-> FALSE],
            [attr |-> "_last_known_reading", field |-> "*", value |-> reading] >>

\* the stores of set_sensor, in order: the new dict, the flag, the reading
set_sensor_stores(c, t, reading, ratings) ==
    << [attr |-> "_sensor_cache", field |-> "*",
        value |-> [reading |-> reading, ratings |-> ratings, fetched_at |-> t]],
       [attr |-> "_is_offline", field |-> "*", value |-> FALSE],
       [attr |-> "_last_known_reading", field |-> "*", value |-> reading] >>

\* the one store of set_variations
set_variations_stores(c, t, rating_snapshot, variations) ==
    << [attr |-> "_variations_cache", field |-> "*",
        value |-> [rating_snapshot |-> rating_snapshot,
                   variations |-> variations,
                   generated_at |-> t]] >>

\* the writer enters set_sensor as _refresh_sensor calls it: with a reading
\* that is not stale and the ratings computed from it
WriterSetSensor ==
    /\ threads.w = <<>>
    /\ \E reading \in FetchOutcomes(now) \ {None} :
           /\ ~is_stale(reading, now, SENSOR_STALE_THRESHOLD_SECONDS)
           /\ threads' = [threads EXCEPT !.w =
                  set_sensor_stores(cache, now, reading,
                      [sup |-> calculate_sup_score_from_sensor(reading),
                       parawing |-> calculate_parawing_score_from_sensor(reading)])]
    /\ UNCHANGED <<now, ticks, cache, last, replies, slow_calls_left, source, page>>

\* the writer enters set_variations as _refresh_variations calls it: with
\* the ratings read from the cache and the texts generated for them
WriterSetVariations ==
    /\ threads.w = <<>>
    /\ get_ratings(cache) # None
    /\ \E returned \in LLMReplies :
           LET ratings == get_ratings(cache)
           IN  threads' = [threads EXCEPT !.w =
                   set_variations_stores(cache, now, ratings,
                       [sup |-> generate_all_variations(ratings.sup, "sup", returned),
                        parawing |-> generate_all_variations(ratings.parawing,
                                                             "parawing", returned)])]
    /\ UNCHANGED <<now, ticks, cache, last, replies, slow_calls_left, source, page>>

\* the writer makes its next store
WriterStore ==
    /\ threads.w # <<>>
    /\ cache' = ApplyStore(cache, Head(threads.w))
    /\ threads' = [threads EXCEPT !.w = Tail(@)]
    /\ UNCHANGED <<now, ticks, last, replies, slow_calls_left, source, page>>

\* the reader calls get_sensor()
ReaderGetSensor ==
    /\ threads.r.pc \in {"idle", "returned"}
    /\ threads' = [threads EXCEPT !.r = [pc |-> "is_none", method |-> "get_sensor",
                                         first |-> None, result |-> None]]
    /\ UNCHANGED <<now, ticks, cache, last, replies, slow_calls_left, source, page>>

\* the next load of get_sensor: is_sensor_stale loads the attribute for its
\* None test and again for fetched_at; get_sensor then loads it to return it
ReaderLoad ==
    /\ threads.r.pc \in {"is_none", "fetched_at", "return"}
    /\ LET v == cache._sensor_cache
       IN  threads' = [threads EXCEPT !.r =
             IF @.pc = "is_none"
             THEN IF v = None THEN [@ EXCEPT !.pc = "returned"]
                  ELSE [@ EXCEPT !.pc = "fetched_at", !.first = v]
             ELSE IF @.pc = "fetched_at"
             THEN IF now - v.fetched_at > SENSOR_CACHE_TTL_SECONDS
                  THEN [@ EXCEPT !.pc = "returned"]
                  ELSE [@ EXCEPT !.pc = "return"]
             ELSE [@ EXCEPT !.pc = "returned", !.result = v]]
    /\ UNCHANGED <<now, ticks, cache, last, replies, slow_calls_left, source, page>>

\* the reader calls get_all_variations(): one load
ReaderGetAllVariations ==
    /\ threads.r.pc \in {"idle", "returned"}
    /\ threads' = [threads EXCEPT !.r = [pc |-> "returned",
                                         method |-> "get_all_variations",
                                         first |-> cache._variations_cache,
                                         result |-> cache._variations_cache]]
    /\ UNCHANGED <<now, ticks, cache, last, replies, slow_calls_left, source, page>>

NextThreads ==
    \/ Tick
    \/ WriterSetSensor
    \/ WriterSetVariations
    \/ WriterStore
    \/ ReaderGetSensor
    \/ ReaderLoad
    \/ ReaderGetAllVariations

SpecThreads == Init /\ [][NextThreads]_vars

\* ------------------------------------------------------------------------
\* The background fill in its executor thread (main.py background_refresh),
\* while the event loop goes on serving requests.  The fill is followed
\* statement by statement; a request runs between two of its statements.
\* ------------------------------------------------------------------------

\* the executor enters refresh_remaining_variations: `if
\* self.cache.is_offline(): return`
FillIsOffline ==
    /\ threads.fill.pc \in {"idle", "done"}
    /\ threads' = [threads EXCEPT !.fill =
                       IF is_offline(cache)
                       THEN [pc |-> "done", result |-> Returned]
                       ELSE [pc |-> "has_complete_variations", result |-> None]]
    /\ last' = [op |-> "run_in_executor", calls |-> NoCalls, result |-> None,
                offline_before |-> is_offline(cache)]
    /\ UNCHANGED <<now, ticks, cache, replies, slow_calls_left, source, page>>

\* `if self.cache.has_complete_variations():` CacheManager defines no such
\* method, the lookup raises AttributeError and the thread leaves the method;
\* background_refresh catches the exception
FillHasCompleteVariations ==
    /\ threads.fill.pc = "has_complete_variations"
    /\ threads' = [threads EXCEPT !.fill =
                       [pc |-> "done", result |-> Raised("AttributeError")]]
    /\ UNCHANGED <<now, ticks, cache, last, replies, slow_calls_left, source, page>>

NextBackgroundFill ==
    \/ Tick
    \/ GetCachedData
    \/ FillIsOffline
    \/ FillHasCompleteVariations

SpecBackgroundFill == Init /\ [][NextBackgroundFill]_vars

\* ------------------------------------------------------------------------
\* Vocabulary of the properties
\* ------------------------------------------------------------------------

\* what a reading returned by fetch() is at time t
FetchKind(reading, t) ==
    IF reading = None THEN "failed"
    ELSE IF t - reading.timestamp_utc > SENSOR_STALE_THRESHOLD_SECONDS THEN "stale"
    ELSE "fresh"

\* the kinds of the readings invocation l obtained
FetchKinds(l, t) == { FetchKind(l.calls.fetch[i], t) : i \in DOMAIN l.calls.fetch }

\* the reading invocation l obtained last
LastFetch(l) == l.calls.fetch[Len(l.calls.fetch)]

LastFetchKind(l, t) ==
    IF l.calls.fetch = <<>> THEN "none" ELSE FetchKind(LastFetch(l), t)

LiveGenerators == {"generate_all_variations", "generate_single_persona_variations"}

DataRequests == {"get_cached_data", "get_initial_data"}

RatingSets == [sup : 1..10, parawing : 1..10]

\* the snapshot is absent or older than its TTL, written out
SnapshotStaleAtStart ==
    \/ cache._sensor_cache = None
    \/ now - cache._sensor_cache.fetched_at > SENSOR_CACHE_TTL_SECONDS

\* ------------------------------------------------------------------------
\* C1
\* ------------------------------------------------------------------------

\* C1 (as stated): a live text that get_random_variation returns comes from a
\* variation entry whose rating_snapshot equals the ratings the snapshot
\* cache holds at that moment; an entry for other ratings is treated as absent.
C1_LiveTextOnlyForLiveRatings ==
    (last.op = "get_random_variation" /\ last.result.text.kind = "live")
        => /\ cache._variations_cache.rating_snapshot = get_ratings(cache)
           /\ last.result.text.rating = get_ratings(cache)[last.result.mode]

\* ------------------------------------------------------------------------
\* C2
\* ------------------------------------------------------------------------

\* C2: for every rating set R, should_regenerate_variations(R) is true exactly
\* when there is no variation entry, or the entry is older than the variation
\* TTL, or its rating_snapshot differs from R in some mode.
C2_ShouldRegenerateExactly ==
    \A R \in RatingSets :
        should_regenerate_variations(cache, now, R)
            <=> \/ cache._variations_cache = None
                \/ now - cache._variations_cache.generated_at
                       > VARIATIONS_CACHE_TTL_MINUTES * 60
                \/ \E m \in Modes : cache._variations_cache.rating_snapshot[m] # R[m]

\* an entry exactly as old as the TTL: not stale for its own ratings, stale
\* for ratings that differ in the parawing mode only
C2_Witness ==
    /\ cache._variations_cache # None
    /\ now - cache._variations_cache.generated_at = VARIATIONS_CACHE_TTL_MINUTES * 60
    /\ ~should_regenerate_variations(cache, now,
                                     cache._variations_cache.rating_snapshot)
    /\ should_regenerate_variations(cache, now,
           [cache._variations_cache.rating_snapshot
               EXCEPT !.parawing = IF @ = 10 THEN 9 ELSE @ + 1])

\* ------------------------------------------------------------------------
\* C3
\* ------------------------------------------------------------------------

\* C3: no orchestrator operation calls generate_all_variations or
\* generate_single_persona_variations while the offline flag is true, and an
\* operation that ends with the flag true has called neither.
C3_NoLiveGenerationWhileOffline ==
    \A i \in DOMAIN last.calls.llm :
        last.calls.llm[i].fn \in LiveGenerators
            => /\ ~last.calls.llm[i].offline
               /\ ~is_offline(cache)

\* offline, with a fresh snapshot whose ratings the variation entry does not
\* match: get_cached_data would regenerate if it were online, and calls nothing
C3_Witness ==
    /\ last.op = "get_cached_data"
    /\ last.offline_before
    /\ is_offline(cache)
    /\ get_sensor(cache, now) # None
    /\ should_regenerate_variations(cache, now, get_ratings(cache))
    /\ last.calls.llm = <<>>

\* ------------------------------------------------------------------------
\* C4
\* ------------------------------------------------------------------------

\* C4 (as stated): the offline flag goes from true to false only in a step in
\* which a fetch returned a reading that is not stale.
C4_ClearedOnlyByFreshFetch ==
    [][(is_offline(cache) /\ ~is_offline(cache'))
           => "fresh" \in FetchKinds(last', now')]_vars

\* C4 (amended): the offline flag goes from true to false only in a step in
\* which a fetch returned a reading that is not stale, or in a call of
\* CacheManager.clear().
C4_ClearedOnlyByFreshFetchOrClear ==
    [][(is_offline(cache) /\ ~is_offline(cache'))
           => \/ LastFetchKind(last', now') = "fresh"
              \/ last'.op = "clear"]_vars

\* an operation began offline, fetched a fresh reading and ended online
C4_Witness ==
    /\ last.offline_before
    /\ last.op # "clear"
    /\ LastFetchKind(last, now) = "fresh"
    /\ ~is_offline(cache)

\* ------------------------------------------------------------------------
\* C5
\* ------------------------------------------------------------------------

\* C5: when the last fetch of an operation returned a fresh reading (so
\* set_sensor ran), the offline flag is false and the snapshot entry is the
\* new one: that reading, its ratings, fetched now.
C5_SetSensorClearsOfflineAndReplaces ==
    LastFetchKind(last, now) = "fresh"
        => /\ ~is_offline(cache)
           /\ cache._sensor_cache =
                  [reading |-> LastFetch(last),
                   ratings |->
                       [sup |-> calculate_sup_score_from_sensor(LastFetch(last)),
                        parawing |->
                            calculate_parawing_score_from_sensor(LastFetch(last))],
                   fetched_at |-> now]

\* set_sensor ran in an operation that began offline, after the clock had
\* moved
C5_Witness ==
    /\ last.offline_before
    /\ LastFetchKind(last, now) = "fresh"
    /\ cache._sensor_cache.reading = LastFetch(last)
    /\ cache._sensor_cache.fetched_at > 0
    /\ is_offline(cache) = FALSE

\* ------------------------------------------------------------------------
\* C6
\* ------------------------------------------------------------------------

\* C6: set_offline with no reading sets the flag and leaves the last-known
\* reading as it is; a step in which time passes, or no fetch is made, or every
\* fetch fails, leaves the last-known reading unchanged (and a failed fetch
\* sets the flag); a step whose last fetch returned a stale reading r sets the
\* flag and makes r the last-known reading.
C6_LastKnownReadingSurvives ==
    [][/\ set_offline(cache, None)._last_known_reading = cache._last_known_reading
       /\ is_offline(set_offline(cache, None))
       /\ FetchKinds(last', now') \subseteq {"failed"}
              => cache'._last_known_reading = cache._last_known_reading
       /\ LastFetchKind(last', now') = "failed" => is_offline(cache')
       /\ LastFetchKind(last', now') = "stale"
              => /\ is_offline(cache')
                 /\ cache'._last_known_reading = LastFetch(last')]_vars

\* a second failed fetch in a row, more than the variation TTL after the
\* last-known reading was taken: the reading is still there
C6_Witness ==
    /\ last.offline_before
    /\ is_offline(cache)
    /\ FetchKinds(last, now) = {"failed"}
    /\ cache._last_known_reading # None
    /\ now - cache._last_known_reading.timestamp_utc
           > VARIATIONS_CACHE_TTL_MINUTES * 60

\* ------------------------------------------------------------------------
\* C7
\* ------------------------------------------------------------------------

\* C7: when the last fetch of an operation returned a reading r older than the
\* source-staleness threshold, the offline flag is set, r is the last-known
\* reading, no snapshot entry holds r, and a data request returns the offline
\* response carrying r and no ratings.
C7_StaleReadingGoesOffline ==
    LastFetchKind(last, now) = "stale"
        => /\ is_offline(cache)
           /\ get_last_known_reading(cache) = LastFetch(last)
           /\ \/ cache._sensor_cache = None
              \/ cache._sensor_cache.reading # LastFetch(last)
           /\ last.op \in DataRequests
                  => /\ last.result.kind = "response"
                     /\ last.result.is_offline
                     /\ last.result.last_known_reading = LastFetch(last)
                     /\ last.result.timestamp = LastFetch(last).timestamp_utc
                     /\ last.result.ratings = None

\* get_cached_data began online, was handed a stale reading and answered offline
C7_Witness ==
    /\ last.op = "get_cached_data"
    /\ ~last.offline_before
    /\ LastFetchKind(last, now) = "stale"
    /\ last.result.is_offline
    /\ last.result.last_known_reading = LastFetch(last)

\* ------------------------------------------------------------------------
\* C8
\* ------------------------------------------------------------------------

\* C8: as long as no reading has ever been obtained (no last-known reading),
\* every data request fetches once, the fetch having failed, does not raise,
\* and returns the offline response with an empty last-known reading.
C8_FailuresFromScratchAnswerOffline ==
    (last.op \in DataRequests /\ get_last_known_reading(cache) = None)
        => /\ last.calls.fetch = <<None>>
           /\ is_offline(cache)
           /\ cache._sensor_cache = None
           /\ last.result =
                  [kind |-> "response", is_offline |-> TRUE, timestamp |-> None,
                   last_known_reading |-> None, ratings |-> None,
                   variations |-> EmptyVariations]

\* a data request that failed after an earlier fetch had already failed and
\* the clock has moved, still with no last-known reading
C8_Witness ==
    /\ last.op \in DataRequests
    /\ last.offline_before
    /\ now > 0
    /\ get_last_known_reading(cache) = None
    /\ last.result.kind = "response"
    /\ last.result.is_offline
    /\ last.result.last_known_reading = None

\* ------------------------------------------------------------------------
\* C9
\* ------------------------------------------------------------------------

C10_GetSensorRespectsTTL ==
    IF cache._sensor_cache = None
    THEN is_sensor_stale(cache, now) /\ get_sensor(cache, now) = None
    ELSE IF now - cache._sensor_cache.fetched_at > SENSOR_CACHE_TTL_SECONDS
    THEN is_sensor_stale(cache, now) /\ get_sensor(cache, now) = None
    ELSE ~is_sensor_stale(cache, now) /\ get_sensor(cache, now) = cache._sensor_cache

\* an entry exactly TTL seconds old is returned
C10_Witness ==
    /\ cache._sensor_cache # None
    /\ now - cache._sensor_cache.fetched_at = SENSOR_CACHE_TTL_SECONDS
    /\ get_sensor(cache, now) = cache._sensor_cache

\* ------------------------------------------------------------------------
\* C11
\* ------------------------------------------------------------------------

\* the calls of generator fn in the log of invocation l
CallsOf(l, fn) == { i \in DOMAIN l.calls.llm : l.calls.llm[i].fn = fn }

C12_GetCachedDataNeverGenerates ==
    last.op = "get_cached_data" => CallsOf(last, "generate_all_variations") = {}

\* ------------------------------------------------------------------------
\* C13
\* ------------------------------------------------------------------------

\* the snapshot is fresh, and the variation entry is within its TTL and was
\* made for the ratings the snapshot holds
NothingChanged ==
    /\ ~SnapshotStaleAtStart
    /\ cache._variations_cache # None
    /\ now - cache._variations_cache.generated_at
           <= VARIATIONS_CACHE_TTL_MINUTES * 60
    /\ cache._variations_cache.rating_snapshot = cache._sensor_cache.ratings

LiveCalls(l) == { i \in DOMAIN l.calls.llm : l.calls.llm[i].fn \in LiveGenerators }

\* C14 (as stated): a step in which the live-rating generator was called and
\* every such call failed (returned nothing) leaves an existing variation
\* entry as it was (variations, rating_snapshot and generated_at), and the
\* operation does not raise.
C14_FailedGenerationLeavesEntry ==
    [][(/\ cache._variations_cache # None
        /\ LiveCalls(last') # {}
        /\ \A i \in LiveCalls(last') : last'.calls.llm[i].returned = {})
           => /\ cache'._variations_cache = cache._variations_cache
              /\ last'.result.kind # "raised"]_vars

\* ------------------------------------------------------------------------
\* C15
\* ------------------------------------------------------------------------

CallerOperations ==
    {"get_cached_data", "get_initial_data", "refresh_remaining_variations",
     "get_random_variation"}

\* C15 (as stated): whatever the sensor and the generator answer, every call
\* of get_cached_data, get_initial_data, refresh_remaining_variations and
\* get_random_variation ends with a normal result: a response, a text, or a
\* plain return; none raises.
C15_NoErrorReachesCaller ==
    last.op \in CallerOperations
        => last.result.kind \in {"response", "text", "returned"}

\* ------------------------------------------------------------------------
\* C16
\* ------------------------------------------------------------------------

\* C16 (as stated): a call set_variations(rating_snapshot, variations,
\* merge=True) is carried out, and every persona that had texts for a mode
\* before the call still has texts for that mode after it.
C16_MergeNeverDropsPersona ==
    [][last'.op = "set_variations"
           => /\ last'.result.kind = "returned"
              /\ \A mode \in Modes, p \in Personas :
                     get_variations(cache, mode, p) # <<>>
                         => get_variations(cache', mode, p) # <<>>]_vars

\* ------------------------------------------------------------------------
\* C17
\* ------------------------------------------------------------------------

\* the variation entry is within its TTL, was made for the ratings held, and
\* has texts for every persona in both modes
VariationsCompleteAndFresh ==
    /\ cache._variations_cache # None
    /\ now - cache._variations_cache.generated_at
           <= VARIATIONS_CACHE_TTL_MINUTES * 60
    /\ cache._variations_cache.rating_snapshot = get_ratings(cache)
    /\ \A mode \in Modes, p \in Personas : get_variations(cache, mode, p) # <<>>

\* C17 (as stated): refresh_remaining_variations called while the variation
\* entry is complete and fresh skips: it returns having made no fetch and no
\* generator call and having left the cache as it was.
C17_RefreshRemainingSkipsWhenComplete ==
    [][(last'.op = "refresh_remaining_variations" /\ VariationsCompleteAndFresh)
           => /\ last'.result.kind = "returned"
              /\ last'.calls = NoCalls
              /\ cache' = cache]_vars

\* ------------------------------------------------------------------------
\* C18
\* ------------------------------------------------------------------------

\* C18 (as stated): get_initial_data(persona) that is online after its
\* snapshot step and finds no variation entry calls
\* generate_single_persona_variations exactly twice, for sup and for parawing
\* with that persona, never calls generate_all_variations, and returns a
\* response whose variations hold that persona under both modes.
C18_InitialDataGeneratesPersonaTwice ==
    [][(/\ last'.op = "get_initial_data"
        /\ ~is_offline(cache')
        /\ cache'._sensor_cache # None
        /\ cache._variations_cache = None)
           => /\ last'.result.kind = "response"
              /\ CallsOf(last', "generate_all_variations") = {}
              /\ \E persona_id \in Personas :
                    /\ Len(last'.calls.llm) = 2
                    /\ \A i \in 1..2 :
                          /\ last'.calls.llm[i].fn = "generate_single_persona_variations"
                          /\ last'.calls.llm[i].persona = persona_id
                    /\ last'.calls.llm[1].mode = "sup"
                    /\ last'.calls.llm[2].mode = "parawing"
                    /\ \A mode \in Modes :
                          persona_id \in DOMAIN last'.result.variations[mode]]_vars

\* ------------------------------------------------------------------------
\* C19
\* ------------------------------------------------------------------------

\* C19 (as stated): the first-paint request get_initial_data makes at most
\* one generator call, for one persona and one mode, and completes with a
\* response whatever the variation entry holds.
C19_FirstPaintAtMostOneCall ==
    last.op = "get_initial_data"
        => /\ Len(last.calls.llm) <= 1
           /\ last.result.kind = "response"

\* ------------------------------------------------------------------------
\* C20
\* ------------------------------------------------------------------------

\* C20 (as stated): get_initial_data called with a fresh snapshot, the offline
\* flag clear and a fresh variation entry holding every persona makes no
\* generator call and returns is_offline false with the cached variations.
C20_InitialDataServesFreshCache ==
    [][(/\ last'.op = "get_initial_data"
        /\ ~SnapshotStaleAtStart
        /\ ~is_offline(cache)
        /\ VariationsCompleteAndFresh)
           => /\ last'.calls.llm = <<>>
              /\ last'.result.kind = "response"
              /\ last'.result.is_offline = FALSE
              /\ last'.result.variations = cache._variations_cache.variations]_vars

\* ------------------------------------------------------------------------
\* C21
\* ------------------------------------------------------------------------

\* the texts stored for (mode, persona_id) in a mode -> persona -> list
\* mapping, or in nothing
PoolOf(mapping, mode, persona_id) ==
    IF mapping = None THEN {}
    ELSE IF mode \notin DOMAIN mapping THEN {}
    ELSE IF persona_id \notin DOMAIN mapping[mode] THEN {}
    ELSE Range(mapping[mode][persona_id])

LivePool(mode, persona_id) ==
    IF cache._variations_cache = None THEN {}
    ELSE PoolOf(cache._variations_cache.variations, mode, persona_id)

OfflinePool(mode, persona_id) == PoolOf(cache._offline_variations, mode, persona_id)

\* the snapshot entry exists and is within its TTL
SnapshotFresh ==
    /\ cache._sensor_cache # None
    /\ now - cache._sensor_cache.fetched_at <= SENSOR_CACHE_TTL_SECONDS

\* what get_random_variation answered while the offline flag is set: a text
\* of the offline pool of the pair, or the fixed offline string if it is empty
OfflineAnswerRight(r) ==
    IF OfflinePool(r.mode, r.persona_id) # {}
    THEN r.text \in OfflinePool(r.mode, r.persona_id)
    ELSE r.text = OfflineFallback

\* C21 (as stated): get_random_variation answers, while offline, from the
\* offline pool of the pair or with the fixed offline string; while online,
\* from the live list of the pair when it is non-empty and otherwise with the
\* fallback built from the raw reading and the rating.
C21_RandomVariationFromRightPool ==
    last.op = "get_random_variation"
        => /\ last.result.kind = "text"
           /\ IF is_offline(cache)
              THEN OfflineAnswerRight(last.result)
              ELSE IF LivePool(last.result.mode, last.result.persona_id) # {}
                   THEN last.result.text
                            \in LivePool(last.result.mode, last.result.persona_id)
                   ELSE last.result.text.kind = "conditions"

\* C21 (amended): as above, except that online with an empty live list the
\* answer is the fallback built from the reading and the mode's rating of the
\* snapshot when the snapshot is fresh, and the fixed no-data string when
\* there is no fresh snapshot; the offline pool is never used while online
\* and live text never while offline.
C21_RandomVariationFromRightPoolOrNoData ==
    last.op = "get_random_variation"
        => /\ last.result.kind = "text"
           /\ IF is_offline(cache)
              THEN /\ OfflineAnswerRight(last.result)
                   /\ last.result.text.kind \in {"offline", "offline_fallback"}
              ELSE /\ last.result.text.kind \notin {"offline", "offline_fallback"}
                   /\ IF LivePool(last.result.mode, last.result.persona_id) # {}
                      THEN last.result.text
                               \in LivePool(last.result.mode, last.result.persona_id)
                      ELSE IF SnapshotFresh
                      THEN last.result.text
                               = [kind |-> "conditions",
                                  wind_speed_kts |->
                                      cache._sensor_cache.reading.wind_speed_kts,
                                  wind_direction |->
                                      cache._sensor_cache.reading.wind_direction,
                                  rating |->
                                      cache._sensor_cache.ratings[last.result.mode]]
                      ELSE last.result.text = NoDataFallback

\* offline with live texts still stored for the pair, get_random_variation
\* answered with a text of the offline pool
C21_Witness ==
    /\ last.op = "get_random_variation"
    /\ is_offline(cache)
    /\ LivePool(last.result.mode, last.result.persona_id) # {}
    /\ last.result.text \in OfflinePool(last.result.mode, last.result.persona_id)

\* ------------------------------------------------------------------------
\* C22
\* ------------------------------------------------------------------------

\* C22 (as stated): a step that enters offline mode with no pool stored calls
\* generate_offline_variations, and once a pool is stored no step calls
\* generate_offline_variations or changes the pool.
C22_OfflinePoolGeneratedOnce ==
    [][/\ (/\ ~is_offline(cache) /\ is_offline(cache')
           /\ cache._offline_variations = None)
              => CallsOf(last', "generate_offline_variations") # {}
       /\ cache._offline_variations # None
              => /\ CallsOf(last', "generate_offline_variations") = {}
                 /\ cache'._offline_variations = cache._offline_variations]_vars

\* ------------------------------------------------------------------------
\* C23
\* ------------------------------------------------------------------------

\* the modes for which invocation l called generate_all_variations
BatchModes(l) ==
    { l.calls.llm[i].mode : i \in CallsOf(l, "generate_all_variations") }

\* C23: a check_and_refresh_if_needed step that ends online, when a
\* variation entry existed, calls the live generator if and only if for some
\* mode the newly stored rating differs from the entry's rating_snapshot
\* rating by more than 2 (whatever the entry's age), and then calls the batch
\* generator for both modes; when no entry existed it calls the batch
\* generator for both modes.
C23_RefreshIffRatingMovedMoreThan2 ==
    [][(/\ last'.op = "check_and_refresh_if_needed"
        /\ ~is_offline(cache'))
           => /\ cache'._sensor_cache # None
              /\ IF cache._variations_cache # None
                 THEN /\ LiveCalls(last') # {}
                            <=> \E mode \in Modes :
                                   Abs(cache'._sensor_cache.ratings[mode]
                                       - cache._variations_cache.rating_snapshot[mode]) > 2
                      /\ LiveCalls(last') # {} => BatchModes(last') = Modes
                 ELSE BatchModes(last') = Modes]_vars

\* check_and_refresh_if_needed found an entry (it fetched once), stayed
\* online and regenerated although the entry was younger than the TTL
C23_Witness ==
    /\ last.op = "check_and_refresh_if_needed"
    /\ ~is_offline(cache)
    /\ Len(last.calls.fetch) = 1
    /\ BatchModes(last) = Modes
    /\ now > 0
    /\ now <= VARIATIONS_CACHE_TTL_MINUTES * 60

\* ------------------------------------------------------------------------
\* C24
\* ------------------------------------------------------------------------

\* C24 (as stated): in a page load, refresh_remaining_variations has been
\* started only if get_initial_data has returned, its response has been
\* displayed and made visible, that response is an online one and a persona
\* was selected.
C24_FillOnlyAfterInitialDataDisplayed ==
    page.fill = "started"
        => /\ page.initial = "returned"
           /\ page.displayed # None
           /\ page.displayed = page.cached_data
           /\ page.visible
           /\ ~page.cached_data.is_offline
           /\ page.current_persona_id # NoPersona

\* ------------------------------------------------------------------------
\* C25
\* ------------------------------------------------------------------------

\* the fields of a snapshot entry come from one set_sensor call: the ratings
\* are those of the reading, and the reading is the one fetched at fetched_at
WholeSensorEntry(e) ==
    /\ e.ratings = [sup |-> calculate_sup_score_from_sensor(e.reading),
                    parawing |-> calculate_parawing_score_from_sensor(e.reading)]
    /\ e.reading.timestamp_utc = e.fetched_at - SENSOR_STALE_THRESHOLD_SECONDS

\* the fields of a variation entry come from one set_variations call: every
\* text was generated for the rating_snapshot rating of its mode
WholeVariationEntry(e) ==
    \A mode \in Modes :
        \A p \in DOMAIN e.variations[mode] :
            \A text \in Range(e.variations[mode][p]) :
                text.rating = e.rating_snapshot[mode]

\* C25: with a writer inside set_sensor or set_variations and a reader
\* inside get_sensor or get_all_variations, stepping load by load and store by
\* store, every entry the cache holds at any moment and every entry a read
\* method returns has all its fields from one write.
C25_ReadersSeeWholeEntries ==
    /\ cache._sensor_cache # None => WholeSensorEntry(cache._sensor_cache)
    /\ cache._variations_cache # None => WholeVariationEntry(cache._variations_cache)
    /\ (threads.r.pc = "returned" /\ threads.r.result # None)
           => IF threads.r.method = "get_sensor"
              THEN WholeSensorEntry(threads.r.result)
              ELSE WholeVariationEntry(threads.r.result)

\* get_sensor() tested one entry and returned the entry of a set_sensor call
\* that replaced it meanwhile and has not yet made its other stores
C25_Witness ==
    /\ threads.r.pc = "returned"
    /\ threads.r.method = "get_sensor"
    /\ threads.r.result # None
    /\ threads.r.first # threads.r.result
    /\ Len(threads.w) = 2

\* ------------------------------------------------------------------------
\* C26
\* ------------------------------------------------------------------------

\* the texts a response carries
ResponseTexts(response) ==
    UNION { UNION { Range(response.variations[mode][p])
                    : p \in DOMAIN response.variations[mode] }
            : mode \in DOMAIN response.variations }

\* C26: every offline response has is_offline true, ratings None, an empty
\* mapping of variations for sup and for parawing, and the cache's last-known
\* reading (None when there is none); no response carries a text of the
\* offline pool, which only get_random_variation returns.
C26_OfflineResponseShape ==
    /\ (last.op \in DataRequests /\ last.result.kind = "response")
           => /\ last.result.is_offline
                  => /\ last.result.ratings = None
                     /\ DOMAIN last.result.variations = Modes
                     /\ \A mode \in Modes : DOMAIN last.result.variations[mode] = {}
                     /\ last.result.last_known_reading = cache._last_known_reading
              /\ \A text \in ResponseTexts(last.result) : text.kind # "offline"
    /\ (last.result # None /\ last.result.kind = "text"
        /\ last.result.text.kind = "offline")
           => last.op = "get_random_variation"

\* an offline response carrying the last-known reading, given while the
\* offline pool is stored
C26_Witness ==
    /\ last.op \in DataRequests
    /\ last.result.kind = "response"
    /\ last.result.is_offline
    /\ last.result.last_known_reading # None
    /\ cache._offline_variations # None

\* ------------------------------------------------------------------------
\* C27
\* ------------------------------------------------------------------------

\* C27: a step all of whose fetches failed or returned a stale reading
\* leaves the snapshot entry and the variation entry exactly as they were;
\* and the snapshot entry changes only in a step that fetched a reading that
\* is not stale (or in clear()), the new entry holding that reading, its
\* ratings and the time of the fetch.
C27_SnapshotReplacedOnlyByFreshFetch ==
    [][/\ (/\ last'.calls.fetch # <<>>
           /\ "fresh" \notin FetchKinds(last', now))
              => /\ cache'._sensor_cache = cache._sensor_cache
                 /\ cache'._variations_cache = cache._variations_cache
       /\ (cache'._sensor_cache # cache._sensor_cache /\ last'.op # "clear")
              => /\ "fresh" \in FetchKinds(last', now)
                 /\ cache'._sensor_cache.reading \in Range(last'.calls.fetch)
                 /\ cache'._sensor_cache.fetched_at = now
                 /\ WholeSensorEntry(cache'._sensor_cache)]_vars

\* a failed or stale fetch happened while a snapshot entry and a variation
\* entry were stored, and both are still there
C27_Witness ==
    /\ last.calls.fetch # <<>>
    /\ "fresh" \notin FetchKinds(last, now)
    /\ is_offline(cache)
    /\ cache._sensor_cache # None
    /\ cache._variations_cache # None

\* ------------------------------------------------------------------------
\* C28
\* ------------------------------------------------------------------------

\* every persona has texts in both modes of the variation entry
VariationsComplete ==
    /\ cache._variations_cache # None
    /\ \A mode \in Modes, p \in Personas : get_variations(cache, mode, p) # <<>>

\* C28 (as stated): refresh_remaining_variations called with the offline
\* flag clear, when a fresh snapshot exists and the variation entry is not
\* complete, calls generate_all_variations exactly once per mode with the
\* current ratings and stores the replies under those ratings; when no fresh
\* snapshot exists it makes no generator call.
C28_BackgroundFillGeneratesOncePerMode ==
    [][(/\ last'.op = "refresh_remaining_variations"
        /\ ~is_offline(cache))
           => IF get_sensor(cache, now) = None
              THEN last'.calls.llm = <<>>
              ELSE ~VariationsComplete
                   => /\ last'.result.kind = "returned"
                      /\ Len(last'.calls.llm) = 2
                      /\ \A i \in 1..2 :
                            /\ last'.calls.llm[i].fn = "generate_all_variations"
                            /\ last'.calls.llm[i].mode = <<"sup", "parawing">>[i]
                            /\ last'.calls.llm[i].rating
                                   = get_ratings(cache)[<<"sup", "parawing">>[i]]
                      /\ cache'._variations_cache # None
                      /\ cache'._variations_cache.rating_snapshot = get_ratings(cache)]_vars

\* ------------------------------------------------------------------------
\* C29
\* ------------------------------------------------------------------------

\* the variation entries and snapshot entries to try the cache methods with
SomeRatings ==
    { [sup |-> calculate_sup_score_from_sensor(SensorReading(w, "N", 0)),
       parawing |-> calculate_parawing_score_from_sensor(SensorReading(w, "N", 0))]
      : w \in Winds }

SomeVariationEntries ==
    {None} \cup
    { [rating_snapshot |-> r,
       variations |-> [mode \in Modes |->
                          generate_all_variations(r[mode], mode, returned)],
       generated_at |-> t]
      : r \in SomeRatings, returned \in LLMReplies, t \in {0, now} }

SomeSensorEntries ==
    {None} \cup
    { [reading |-> SensorReading(w, "N", t - SENSOR_STALE_THRESHOLD_SECONDS),
       ratings |-> r, fetched_at |-> t]
      : w \in Winds, r \in SomeRatings, t \in {0, now} }

\* in the current state: the two staleness tests are the comparisons of the
\* entry's own time with its own TTL, whatever the other entry, the flag and
\* the last-known reading hold; set_sensor leaves the variation entry alone;
\* set_variations leaves the snapshot entry, the flag and the last-known
\* reading alone
C29_Independent ==
    /\ is_sensor_stale(cache, now)
           <=> \/ cache._sensor_cache = None
               \/ now - cache._sensor_cache.fetched_at > SENSOR_CACHE_TTL_SECONDS
    /\ is_variations_stale(cache, now)
           <=> \/ cache._variations_cache = None
               \/ now - cache._variations_cache.generated_at
                      > VARIATIONS_CACHE_TTL_MINUTES * 60
    /\ \A v \in SomeVariationEntries, f \in BOOLEAN :
           is_sensor_stale([cache EXCEPT !._variations_cache = v,
                                         !._is_offline = f], now)
               = is_sensor_stale(cache, now)
    /\ \A e \in SomeSensorEntries, f \in BOOLEAN :
           is_variations_stale([cache EXCEPT !._sensor_cache = e,
                                             !._is_offline = f], now)
               = is_variations_stale(cache, now)
    /\ \A reading \in FetchOutcomes(now) \ {None}, r \in SomeRatings :
           set_sensor(cache, now, reading, r)._variations_cache
               = cache._variations_cache
    /\ \A v \in SomeVariationEntries \ {None} :
           LET c == set_variations(cache, now, v.rating_snapshot, v.variations)
           IN  /\ c._sensor_cache = cache._sensor_cache
               /\ c._is_offline = cache._is_offline
               /\ c._last_known_reading = cache._last_known_reading

\* C29: the snapshot cache and the variation cache are independent, in every
\* state (see C29_Independent) and in every step: an operation that stores a
\* new snapshot entry and calls no live generator leaves the variation entry
\* as it was, and an operation that fetches nothing leaves the snapshot
\* entry, the offline flag and the last-known reading as they were, whatever
\* it does to the variation entry.
C29_CachesIndependent ==
    /\ []C29_Independent
    /\ [][/\ (LiveCalls(last') = {} /\ last'.op # "clear")
               => cache'._variations_cache = cache._variations_cache
          /\ (last'.calls.fetch = <<>> /\ last'.op # "clear")
               => /\ cache'._sensor_cache = cache._sensor_cache
                  /\ cache'._is_offline = cache._is_offline
                  /\ cache'._last_known_reading = cache._last_known_reading]_vars

\* the snapshot entry was just replaced by a fetch, and the variation entry
\* stored before it is still there though older than its own TTL
C29_Witness ==
    /\ last.calls.fetch # <<>>
    /\ cache._sensor_cache # None
    /\ cache._sensor_cache.fetched_at = now
    /\ cache._variations_cache # None
    /\ cache._variations_cache.generated_at < now
    /\ is_variations_stale(cache, now)
    /\ ~is_sensor_stale(cache, now)

\* ------------------------------------------------------------------------
\* C30
\* ------------------------------------------------------------------------

\* the generator calls of one invocation that were made for `mode`, in order
CallsForMode(l, mode) ==
    LET ForMode(call) == call.mode = mode
    IN  SelectSeq(l.calls.llm, ForMode)

\* the personas whose texts the calls for one mode brought back: those of the
\* batch reply or, when it was empty, those whose single call returned texts
KeptPersonas(calls) ==
    IF calls[1].returned # {} THEN calls[1].returned
    ELSE { calls[i].persona : i \in { j \in 2..Len(calls) : calls[j].returned # {} } }

\* what warmup_cache did for one mode: one batch call with the mode's current
\* rating; no further call when it returned texts, else one single-persona call
\* per persona, in list order; and the stored texts of the mode are those of
\* the calls that returned some, with no entry for the others
WarmupModeDone(l, c, mode) ==
    LET calls == CallsForMode(l, mode)
        rating == c._sensor_cache.ratings[mode]
    IN  /\ Len(calls) >= 1
        /\ calls[1].fn = "generate_all_variations"
        /\ calls[1].rating = rating
        /\ IF calls[1].returned # {}
           THEN Len(calls) = 1
           ELSE /\ Len(calls) = 1 + Len(PersonaList)
                /\ \A i \in 1..Len(PersonaList) :
                       /\ calls[i + 1].fn = "generate_single_persona_variations"
                       /\ calls[i + 1].persona = PersonaList[i]
                       /\ calls[i + 1].rating = rating
        /\ mode \in DOMAIN c._variations_cache.variations
        /\ c._variations_cache.variations[mode]
               = [p \in KeptPersonas(calls) |-> <<LiveText(mode, p, rating)>>]

\* C30: warmup_cache never raises.  When its fetch leaves the system offline
\* it calls no live-rating generator.  Otherwise, for each mode, it makes the
\* batch call and, when that returns nothing, one single-persona call per
\* persona for that mode; it keeps only the non-empty results; and it stores
\* the variation entry, tagged with the ratings of the snapshot just fetched.
C30_WarmupFallsBackAndStores ==
    last.op = "warmup_cache"
        => /\ last.result.kind = "returned"
           /\ Len(last.calls.fetch) = 1
           /\ is_offline(cache) => LiveCalls(last) = {}
           /\ ~is_offline(cache)
                  => /\ cache._sensor_cache # None
                     /\ cache._variations_cache # None
                     /\ cache._variations_cache.rating_snapshot
                            = cache._sensor_cache.ratings
                     /\ cache._variations_cache.generated_at = now
                     /\ \A mode \in Modes : WarmupModeDone(last, cache, mode)

\* a warm-up that stayed online, whose batch call succeeded for sup and
\* returned nothing for parawing, where one of the two single calls failed:
\* the entry holds every persona for sup and only the other one for parawing
C30_Witness ==
    /\ last.op = "warmup_cache"
    /\ ~is_offline(cache)
    /\ Len(CallsForMode(last, "sup")) = 1
    /\ Len(CallsForMode(last, "parawing")) = 3
    /\ cache._variations_cache # None
    /\ DOMAIN cache._variations_cache.variations.sup = Personas
    /\ DOMAIN cache._variations_cache.variations.parawing = {"disappointed_dad"}
    /\ cache._variations_cache.rating_snapshot = cache._sensor_cache.ratings

\* ------------------------------------------------------------------------
\* C31
\* ------------------------------------------------------------------------

\* the latest invocation was `op` and returned an online response
ReturnedOnline(l, op) ==
    /\ l.op = op
    /\ l.result.kind = "response"
    /\ ~l.result.is_offline

\* C31 (as stated): when get_cached_data has returned an online response, a
\* variation entry exists whose rating_snapshot equals the ratings of that
\* response, and should_regenerate_variations of those ratings is false.
C31_OnlineResponseLeavesMatchingEntry ==
    ReturnedOnline(last, "get_cached_data")
        => /\ cache._variations_cache # None
           /\ cache._variations_cache.rating_snapshot = last.result.ratings
           /\ ~should_regenerate_variations(cache, now, last.result.ratings)

\* ------------------------------------------------------------------------
\* C32
\* ------------------------------------------------------------------------

\* every text of a variation entry is a live text of its mode and persona,
\* generated for the rating the entry's rating_snapshot records for that mode
TextsMatchSnapshot(entry) ==
    \A mode \in DOMAIN entry.variations :
        /\ mode \in DOMAIN entry.rating_snapshot
        /\ \A p \in DOMAIN entry.variations[mode] :
               \A text \in Range(entry.variations[mode][p]) :
                   text = LiveText(mode, p, entry.rating_snapshot[mode])

\* C32: in every reachable state, every variation string stored in the
\* variation cache was generated for the ratings recorded in the entry's
\* rating_snapshot: no write combines texts generated for older ratings with
\* a newer rating_snapshot.
C32_StoredTextsMatchRatingSnapshot ==
    cache._variations_cache # None => TextsMatchSnapshot(cache._variations_cache)

\* a request at a later time fetched a reading rated 7 for sup, regenerated,
\* and the entry it stored holds every persona's texts for the new ratings
C32_Witness ==
    /\ last.op = "get_cached_data"
    /\ now > 0
    /\ Len(last.calls.fetch) = 1
    /\ LiveCalls(last) # {}
    /\ cache._variations_cache # None
    /\ cache._sensor_cache # None
    /\ cache._variations_cache.rating_snapshot = cache._sensor_cache.ratings
    /\ cache._variations_cache.rating_snapshot.sup = 7
    /\ DOMAIN cache._variations_cache.variations.sup = Personas
    /\ last.calls.llm[1].rating = 7

\* ------------------------------------------------------------------------
\* C33
\* ------------------------------------------------------------------------

\* a background fill that found the system online has ended, and while it was
\* running a request refetched the snapshot and regenerated the variations
FillOverlappedRegeneration ==
    /\ threads.fill.pc = "done"
    /\ threads.fill.result # Returned
    /\ ReturnedOnline(last, "get_cached_data")
    /\ last.calls.fetch # <<>>
    /\ LiveCalls(last) # {}

OrchestratorOperations ==
    {"get_cached_data", "get_initial_data", "refresh_remaining_variations",
     "warmup_cache", "check_and_refresh_if_needed"}

\* C34 (as stated): no invocation of an orchestrator operation calls the
\* Measurement Source more than once, and no fetch that failed is followed by
\* another fetch in the same invocation.
C34_AtMostOneFetchPerInvocation ==
    last.op \in OrchestratorOperations
        => /\ Len(last.calls.fetch) <= 1
           /\ \A i \in DOMAIN last.calls.fetch :
                  last.calls.fetch[i] = None => i = Len(last.calls.fetch)

\* ------------------------------------------------------------------------
\* C35
\* ------------------------------------------------------------------------

\* C35: in every state between operations, if the system is not offline and
\* a snapshot entry exists, the last-known reading is the reading stored in
\* the snapshot entry.
C35_LastKnownIsSnapshotReadingOnline ==
    (~is_offline(cache) /\ cache._sensor_cache # None)
        => get_last_known_reading(cache) = cache._sensor_cache.reading

\* the system went offline on a reading that was too old, which became the
\* last-known reading, and a later request fetched a fresh reading with
\* another wind speed: online again, with a snapshot
C35_Witness ==
    /\ last.offline_before
    /\ ~is_offline(cache)
    /\ cache._sensor_cache # None
    /\ Len(last.calls.fetch) = 1
    /\ cache._sensor_cache.reading.wind_speed_kts \notin StaleWinds
    /\ cache._sensor_cache.fetched_at > 0
    /\ cache._sensor_cache.fetched_at = now

\* ------------------------------------------------------------------------
\* C36
\* ------------------------------------------------------------------------

\* C36: once the last-known reading is non-empty, no step makes it empty
\* again: no request, whether its fetch fails, returns an old reading or a
\* fresh one, no passing of time, and no clear().
C36_LastKnownNeverEmptiedAgain ==
    [][cache._last_known_reading # None
           => cache'._last_known_reading # None]_vars

\* clear() has just removed the snapshot of a system that was offline with a
\* last-known reading: the reading is still there
C36_Witness ==
    /\ last.op = "clear"
    /\ last.offline_before
    /\ cache._sensor_cache = None
    /\ ~is_offline(cache)
    /\ cache._last_known_reading # None

\* ------------------------------------------------------------------------
\* C37
\* ------------------------------------------------------------------------

\* the system is offline and the station reports again
OfflineAndSourceFresh == is_offline(cache) /\ source = "fresh"

\* a page load has just fetched a reading, left the cache online and got an
\* online response with a rating for each mode
RecoveredByPageLoad ==
    /\ page.pc = "loaded"
    /\ page.cached_data # None
    /\ page.cached_data.kind = "response"
    /\ ~page.cached_data.is_offline
    /\ DOMAIN page.cached_data.ratings = Modes
    /\ ~is_offline(cache)
    /\ cache._sensor_cache # None
    /\ cache._sensor_cache.fetched_at = now

DataRequestReturnedOnline ==
    \/ ReturnedOnline(last, "get_cached_data")
    \/ ReturnedOnline(last, "get_initial_data")

\* C38: every response that get_cached_data or get_initial_data returns with
\* is_offline false carries a reading and a rating for each of the two modes,
\* and its is_offline field equals the cache's offline flag at the return.
C38_OnlineResponseCarriesReadingAndRatings ==
    DataRequestReturnedOnline
        => /\ last.result.last_known_reading # None
           /\ DOMAIN last.result.ratings = Modes
           /\ last.result.is_offline = is_offline(cache)

\* ------------------------------------------------------------------------
\* C39
\* ------------------------------------------------------------------------

\* the latest invocation was the periodic check, and it left the cache
\* online with a variation entry
CheckEndedOnlineWithEntry ==
    /\ last.op = "check_and_refresh_if_needed"
    /\ ~is_offline(cache)
    /\ cache._variations_cache # None

\* C39: the periodic check bounds the drift of the commentary.  Right after
\* a check_and_refresh_if_needed that ends online with a variation entry
\* present, each mode's live rating differs from the entry's rating_snapshot
\* rating by at most 2.
C39_CheckBoundsCommentaryDrift ==
    CheckEndedOnlineWithEntry
        => /\ get_ratings(cache) # None
           /\ \A mode \in Modes :
                  Abs(get_ratings(cache)[mode]
                      - cache._variations_cache.rating_snapshot[mode]) <= 2

\* a check fetched a reading whose sup rating is 2 away from the rating the
\* entry was generated for, and left the entry as it was
C39_Witness ==
    /\ CheckEndedOnlineWithEntry
    /\ Len(last.calls.fetch) = 1
    /\ last.calls.llm = <<>>
    /\ get_ratings(cache) # None
    /\ Abs(get_ratings(cache)["sup"]
           - cache._variations_cache.rating_snapshot["sup"]) = 2

====
